---- MODULE Spec2Model ----
(***************************************************************************)
(* Country Currency & Exchange API (src/main.py): the refresh pipeline     *)
(* (fetch both feeds, validate, estimate, upsert by case-insensitive name, *)
(* commit, render the summary image), the read handlers and the delete     *)
(* handler, over one SQL table `countries`.                                *)
(*                                                                         *)
(* Scheduling.  Every handler is an `async def` served by one asyncio      *)
(* event loop (uvicorn.run(app), main.py:471-474) and every database call  *)
(* is a blocking call of the synchronous SQLAlchemy session.  A handler    *)
(* therefore gives up the loop only at an `await`: refresh_countries at    *)
(* lines 219 and 220, the other handlers nowhere.  `running` names the     *)
(* handler that holds the loop between two awaits.                         *)
(*                                                                         *)
(* Values.  Python None / SQL NULL / JSON null is Null for text values and *)
(* the empty tuple NoNum for numeric columns (Num(v) is the value v).      *)
(* Floats are modelled by integers: the rates and multipliers of the       *)
(* bounded input sets are chosen so that every division is exact.          *)
(***************************************************************************)
EXTENDS Integers, Sequences, FiniteSets, TLC

VARIABLES
    collation,      \* "cs" | "ci": collation of countries.name in the database behind DATABASE_URL
    table,          \* committed rows of table countries
    nextId,         \* next value of the autoincrement primary key
    clock,          \* datetime.utcnow(), as a counter
    image,          \* content of cache/summary.png (NoImage when the file is absent)
    running,        \* the refresh invocation holding the event loop, 0 when the loop is free
    pc,             \* position of each refresh invocation
    data,           \* countries_data of each invocation
    rates,          \* exchange_rates of each invocation
    idx,            \* index of the next country_data of the for loop
    refresh_time,   \* refresh_time of each invocation
    sess,           \* the SQLAlchemy session of each invocation: pending inserts and loaded, modified rows
    outcome,        \* the HTTP response of each invocation
    lastRead,       \* the last response of a read handler, with the store it was served from
    lastCommitted,  \* history: the committed store as of the last completed commit
    overlapped,     \* history: the invocations each invocation has been in flight together with
    snap,           \* history: the committed store when each invocation began its loop
    fetched,        \* history: the GET requests each invocation has sent to each source
    prevRun         \* history: the feed of the last refresh that committed, while the store is as it left it

vars == <<collation, table, nextId, clock, image, running, pc, data, rates, idx,
          refresh_time, sess, outcome, lastRead, lastCommitted,
          overlapped, snap, fetched, prevRun>>

-----------------------------------------------------------------------------
(* Bounds of the model.                                                    *)

MaxRefreshes == 2   \* refresh invocations per behaviour
MaxFeed == 2        \* records in one countries feed

Refreshes == 1..MaxRefreshes

-----------------------------------------------------------------------------
(* Values.                                                                 *)

Null == "null"
NoNum == <<>>
Num(v) == <<v>>

\* External API URLs
COUNTRIES_API == "https://restcountries.com/v2/all?fields=name,capital,region,population,flag,currencies"
EXCHANGE_API == "https://open.er-api.com/v6/latest/USD"

\* lower(): the case folding behind ILIKE, on the names of the bounded sets
Lower(s) ==
    CASE s = "A" -> "a"
      [] s = "B" -> "b"
      [] s = "USD" -> "usd"
      [] s = "XOF" -> "xof"
      [] s = "Africa" -> "africa"
      [] OTHER -> s

\* faulty variant: only the column is folded, the pattern is compared as given
ILikeFoldsColumnOnly(value, pattern) == value # Null /\ Lower(value) = pattern

\* column.ilike(pattern), for patterns without the LIKE wildcards % and _
ILike(value, pattern) == value # Null /\ Lower(value) = Lower(pattern)

\* A JSON value of the key "population"
JNull == [t |-> "null", v |-> 0]
JInt(n) == [t |-> "int", v |-> n]
JOther == [t |-> "other", v |-> 0]      \* a string, a float, a list, ...

\* A JSON value of the key "currencies": missing, a list of descriptors, or something else
CurAbsent == [t |-> "absent", items |-> <<>>]
CurList(s) == [t |-> "list", items |-> s]
CurOther == [t |-> "other", items |-> <<>>]
Cur(code) == [code |-> code]

Raw(name, population, extras, currencies) ==
    [name |-> name, capital |-> extras.capital, region |-> extras.region,
     population |-> population, flag |-> extras.flag, currencies |-> currencies]

-----------------------------------------------------------------------------
(* Record Normalizer & Validator: refresh_countries, lines 226-254.        *)

\* name = country_data.get("name"); if not name: ...
NameErrors(rec) ==
    IF rec.name = Null \/ rec.name = ""
    THEN {<<"name", "is required">>}
    ELSE {}

\* the if / elif / elif chain on population
PopulationErrors(rec) ==
    CASE rec.population.t = "null" -> {<<"population", "is required">>}
      [] rec.population.t # "int" -> {<<"population", "must be an integer">>}
      [] rec.population.v < 0 -> {<<"population", "must be a non-negative integer">>}
      [] OTHER -> {}

\* faulty variant: the validator raises at the first rule that fails
validation_errors_first(rec) ==
    IF NameErrors(rec) # {} THEN NameErrors(rec) ELSE PopulationErrors(rec)

\* the dict validation_errors of one country_data, as a set of <<field, message>>
validation_errors(rec) == NameErrors(rec) \cup PopulationErrors(rec)

\* faulty variant: the code of the first entry that has one
FirstCodeFound(rec) ==
    IF rec.currencies.t = "list" /\ \E i \in 1..Len(rec.currencies.items) :
                                        rec.currencies.items[i].code # Null
    THEN rec.currencies.items[CHOOSE i \in 1..Len(rec.currencies.items) :
                                 /\ rec.currencies.items[i].code # Null
                                 /\ \A j \in 1..(i - 1) : rec.currencies.items[j].code = Null].code
    ELSE Null

\* currency_code: the code of the first entry of a non-empty list, else None
FirstCurrencyCode(rec) ==
    IF rec.currencies.t = "list" /\ Len(rec.currencies.items) > 0
    THEN rec.currencies.items[1].code
    ELSE Null

-----------------------------------------------------------------------------
(* Economic Estimator: calculate_gdp and refresh_countries, lines 256-271. *)

\* the currency codes a rate table may hold; NoNum marks a code the table lacks
Codes == {"USD", "XOF"}

NoRates == [code \in Codes |-> NoNum]

\* faulty variant: exchange_rates.get(currency_code, 1), a missing rate counts as parity
RateGetOrParity(exchange_rates, code) ==
    IF code \in DOMAIN exchange_rates /\ exchange_rates[code] # NoNum
    THEN exchange_rates[code]
    ELSE Num(1)

\* exchange_rates.get(currency_code): None when the key is missing
RateGet(exchange_rates, code) ==
    IF code \in DOMAIN exchange_rates THEN exchange_rates[code] ELSE NoNum

\* faulty variant: a zero rate yields an estimate of 0 instead of None
calculate_gdp_zero(population, exchange_rate, random_multiplier) ==
    IF exchange_rate = NoNum
    THEN NoNum
    ELSE IF exchange_rate[1] = 0
         THEN Num(0)
         ELSE Num((population * random_multiplier) \div exchange_rate[1])

\* calculate_gdp(population, exchange_rate), with random_multiplier drawn by the caller
calculate_gdp(population, exchange_rate, random_multiplier) ==
    IF exchange_rate = NoNum \/ exchange_rate[1] = 0
    THEN NoNum
    ELSE Num((population * random_multiplier) \div exchange_rate[1])

\* the currency handling logic: currency_code, exchange_rate and estimated_gdp of a valid record
Estimate(rec, exchange_rates, random_multiplier) ==
    LET code == FirstCurrencyCode(rec)
        rate == RateGet(exchange_rates, code)
    IN  IF code = Null \/ code = ""
        THEN [currency_code |-> Null, exchange_rate |-> NoNum, estimated_gdp |-> Num(0)]
        ELSE IF rate # NoNum
             THEN [currency_code |-> code, exchange_rate |-> rate,
                   estimated_gdp |-> calculate_gdp(rec.population.v, rate, random_multiplier)]
             ELSE [currency_code |-> code, exchange_rate |-> NoNum, estimated_gdp |-> NoNum]

-----------------------------------------------------------------------------
(* Reconciler: refresh_countries, lines 273-301, over the session.         *)

\* class Country: one row
Country(id, name, rec, est, t) ==
    [id |-> id, name |-> name, capital |-> rec.capital, region |-> rec.region,
     population |-> rec.population.v, currency_code |-> est.currency_code,
     exchange_rate |-> est.exchange_rate, estimated_gdp |-> est.estimated_gdp,
     flag_url |-> rec.flag, last_refreshed_at |-> t]

\* the columns the update branch assigns
MutableColumns == {"capital", "region", "population", "currency_code", "exchange_rate",
                   "estimated_gdp", "flag_url", "last_refreshed_at"}

\* SessionLocal(): nothing pending, nothing loaded
EmptySession == [new |-> <<>>, loaded |-> {}]

\* faulty variant: the lookup compares the name with == instead of ilike
MatchesExact(tbl, name) == {row \in tbl : row.name = name}

\* db.query(Country).filter(Country.name.ilike(name)): the rows the SELECT matches.
\* With autoflush off the SELECT sees the committed rows only, never the session's pending inserts.
Matches(tbl, name) == {row \in tbl : ILike(row.name, name)}

\* .first(): None ({}) or one matching row ({row}); SQL fixes no order when several match
First(rows) == IF rows = {} THEN {{}} ELSE {{row} : row \in rows}

\* faulty variant: the update branch assigns capital, region and flag_url only when the new
\* value is not None
UpdateExistingMerging(s, existing, rec, est, t) ==
    LET prior == {e \in s.loaded : e.orig.id = existing.id}
        orig == IF prior = {} THEN existing ELSE (CHOOSE e \in prior : TRUE).orig
        last == IF prior = {} THEN existing ELSE (CHOOSE e \in prior : TRUE).cur
        kept == [rec EXCEPT
                    !.capital = IF rec.capital = Null THEN last.capital ELSE rec.capital,
                    !.region = IF rec.region = Null THEN last.region ELSE rec.region,
                    !.flag = IF rec.flag = Null THEN last.flag_url ELSE rec.flag]
        cur == Country(existing.id, existing.name, kept, est, t)
    IN  [s EXCEPT !.loaded = (s.loaded \ prior) \cup {[orig |-> orig, cur |-> cur]}]

\* the update branch: every mutable attribute of the loaded object is assigned.  The session
\* hands out one object per primary key (identity map), so a row matched twice in a batch
\* keeps the values it was loaded with in orig and the latest assignment in cur.
UpdateExisting(s, existing, rec, est, t) ==
    LET prior == {e \in s.loaded : e.orig.id = existing.id}
        orig == IF prior = {} THEN existing ELSE (CHOOSE e \in prior : TRUE).orig
        cur == Country(existing.id, existing.name, rec, est, t)
    IN  [s EXCEPT !.loaded = (s.loaded \ prior) \cup {[orig |-> orig, cur |-> cur]}]

\* faulty variant: the insert leaves last_refreshed_at to the column default
\* (datetime.utcnow at the flush, later than refresh_time)
InsertNewDefaultTime(s, rec, est, t) ==
    [s EXCEPT !.new = Append(s.new, Country(0, rec.name, rec, est, t + 1))]

\* the insert branch: db.add(new_country); the primary key is assigned at the flush
InsertNew(s, rec, est, t) ==
    [s EXCEPT !.new = Append(s.new, Country(0, rec.name, rec, est, t))]

\* if existing_country: ... else: ...
Upsert(s, found, rec, est, t) ==
    IF found # {}
    THEN UpdateExisting(s, CHOOSE row \in found : TRUE, rec, est, t)
    ELSE InsertNew(s, rec, est, t)

-----------------------------------------------------------------------------
(* db.commit(), line 303: the flush of the session and the commit.         *)

\* countries.name is unique=True: equality is that of the column's collation
UniqueKey(coll, name) == IF coll = "ci" THEN Lower(name) ELSE name

\* the unit of work writes the attributes whose value differs from the loaded one
Changed(e, c, row) == IF e.cur[c] # e.orig[c] THEN e.cur[c] ELSE row[c]

\* UPDATE countries SET <changed columns> WHERE id = <primary key>
ApplyUpdate(row, e) ==
    [id |-> row.id, name |-> row.name,
     capital |-> Changed(e, "capital", row), region |-> Changed(e, "region", row),
     population |-> Changed(e, "population", row),
     currency_code |-> Changed(e, "currency_code", row),
     exchange_rate |-> Changed(e, "exchange_rate", row),
     estimated_gdp |-> Changed(e, "estimated_gdp", row),
     flag_url |-> Changed(e, "flag_url", row),
     last_refreshed_at |-> Changed(e, "last_refreshed_at", row)]

\* the rows after the UPDATEs of the loaded objects
Updated(tbl, s) ==
    {IF \E e \in s.loaded : e.orig.id = row.id
     THEN ApplyUpdate(row, CHOOSE e \in s.loaded : e.orig.id = row.id)
     ELSE row : row \in tbl}

\* the rows of the INSERTs of the pending objects, numbered by the autoincrement key
Inserted(s, nid) == {[s.new[i] EXCEPT !.id = nid + i - 1] : i \in 1..Len(s.new)}

\* an UPDATE that matches no row: the row was deleted since it was loaded (StaleDataError)
Stale(tbl, s) == \E e \in s.loaded : \A row \in tbl : row.id # e.orig.id

\* faulty variant: name without unique=True, no INSERT is refused
DuplicateAllowed(tbl, s, coll) == FALSE

\* an INSERT that breaks the unique index on name (IntegrityError)
Duplicate(tbl, s, coll) ==
    \/ \E i, j \in 1..Len(s.new) :
          i < j /\ UniqueKey(coll, s.new[i].name) = UniqueKey(coll, s.new[j].name)
    \/ \E i \in 1..Len(s.new) : \E row \in tbl :
          UniqueKey(coll, s.new[i].name) = UniqueKey(coll, row.name)

\* the exception of the flush, "" when it succeeds
FlushError(tbl, s, coll) ==
    CASE Stale(tbl, s) -> "StaleDataError"
      [] Duplicate(tbl, s, coll) -> "IntegrityError"
      [] OTHER -> ""

\* faulty variant: the refresh clears the table of the rows it did not write
FlushReplacing(tbl, s, nid) ==
    {row \in Updated(tbl, s) : \E e \in s.loaded : e.orig.id = row.id} \cup Inserted(s, nid)

\* the committed rows after a successful flush and commit
Flush(tbl, s, nid) == Updated(tbl, s) \cup Inserted(s, nid)

\* faulty variant: an autocommitting session writes every assignment and db.add() through
AfterWriteAutocommit(tbl, s, nid) == Flush(tbl, s, nid)

\* autocommit=False, autoflush=False (line 22): assigning to a loaded object or db.add()
\* writes nothing; the committed rows are as they were until db.commit()
AfterWrite(tbl, s, nid) == tbl

\* faulty variant: the except clause commits what is pending instead of rolling it back
RollbackCommits(tbl, s, nid) == Flush(tbl, s, nid)

\* db.rollback(): the pending objects are dropped, the committed rows stay
Rollback(tbl, s, nid) == tbl

-----------------------------------------------------------------------------
(* Summary Artifact Generator: generate_summary_image, lines 155-210.      *)

NoImage == [total |-> NoNum, last_refresh |-> NoNum, top |-> <<>>]

\* filter(Country.estimated_gdp.isnot(None))
Priced(tbl) == {row \in tbl : row.estimated_gdp # NoNum}

\* faulty variant: order_by(Country.estimated_gdp.asc()), the rows of least estimated_gdp
Minima(rows) == {m \in rows : \A o \in rows : m.estimated_gdp[1] <= o.estimated_gdp[1]}

\* the rows of greatest estimated_gdp
Maxima(rows) == {m \in rows : \A o \in rows : o.estimated_gdp[1] <= m.estimated_gdp[1]}

\* order_by(Country.estimated_gdp.desc()).limit(n).all(): every order the database may
\* return, rows of equal estimated_gdp in any order
RECURSIVE Ranked(_, _)
Ranked(rows, n) ==
    IF n = 0 \/ rows = {}
    THEN {<<>>}
    ELSE UNION {{<<m>> \o rest : rest \in Ranked(rows \ {m}, n - 1)} : m \in Maxima(rows)}

\* the most recent last_refreshed_at, None without rows
LastRefresh(tbl) ==
    IF tbl = {} THEN NoNum
    ELSE Num(CHOOSE t \in {row.last_refreshed_at : row \in tbl} :
                 \A row \in tbl : row.last_refreshed_at <= t)

\* one line of the ranking: the name, and the formatted estimated_gdp or "N/A" (None here)
\* when estimated_gdp is falsy (0)
Line(row) ==
    [name |-> row.name,
     gdp |-> IF row.estimated_gdp[1] # 0 THEN row.estimated_gdp ELSE NoNum]

\* the image drawn from a ranking
Rendered(tbl, ranking) ==
    [total |-> Num(Cardinality(tbl)), last_refresh |-> LastRefresh(tbl),
     top |-> [i \in 1..Len(ranking) |-> Line(ranking[i])]]

\* the file after generate_summary_image: redrawn, or as it was when a step raised
\* (failure = "" when none did); the exception is caught and printed, never raised
generate_summary_image(tbl, old, ranking, failure) ==
    IF failure = "" THEN Rendered(tbl, ranking) ELSE old

ImageFailures == {"", "query", "render", "save"}

\* faulty variant: the except clause raises the exception again
image_exception_raised(failure) == failure

\* the exception that leaves generate_summary_image when a step failed: none, the
\* except clause of line 208 catches every Exception and only prints it
image_exception(failure) == ""

TopN == 5

-----------------------------------------------------------------------------
(* Source Gateway: fetch_countries and fetch_exchange_rates, lines 83-146. *)

NoOutcome ==
    [status |-> 0, error |-> "", details |-> <<>>, fields |-> {},
     total |-> NoNum, last_refreshed_at |-> NoNum]

\* the three except clauses of each fetch
FetchFailures == {"TimeoutException", "HTTPStatusError", "Exception"}

\* faulty variant: fetch_exchange_rates reports the message of fetch_countries
fetch_error_of_countries(source, failure) ==
    [NoOutcome EXCEPT
        !.status = 503,
        !.error = "External data source unavailable",
        !.details = <<"Could not fetch data from", "RestCountries API", COUNTRIES_API>>]

\* the HTTPException of a failed fetch: every except clause raises the same one
fetch_error(source, failure) ==
    [NoOutcome EXCEPT
        !.status = 503,
        !.error = "External data source unavailable",
        !.details = IF source = "countries"
                    THEN <<"Could not fetch data from", "RestCountries API", COUNTRIES_API>>
                    ELSE <<"Could not fetch data from", "Exchange Rate API", EXCHANGE_API>>]

\* raise HTTPException(status_code=400, ...), lines 250-254
validation_failed(errors) ==
    [NoOutcome EXCEPT !.status = 400, !.error = "Validation failed", !.fields = errors]

\* except Exception as e: ... status_code=500, lines 319-324
internal_error(e) ==
    [NoOutcome EXCEPT !.status = 500, !.error = "Internal server error", !.details = <<e>>]

\* the return of refresh_countries, lines 308-313
refreshed(total, t) ==
    [NoOutcome EXCEPT !.status = 200, !.error = "Countries refreshed successfully",
                      !.total = Num(total), !.last_refreshed_at = Num(t)]

-----------------------------------------------------------------------------
(* The event loop.                                                         *)

\* faulty variant: the loop awaits too (an awaited query per record)
YieldsInLoop(position) == position \in {"fetch_countries", "fetch_rates", "loop", "done"}

\* the positions at which refresh_countries is suspended at an await (lines 219, 220) or
\* has returned; everywhere else it runs on without giving up the loop
Yields(position) == position \in {"fetch_countries", "fetch_rates", "done"}

\* who holds the loop after invocation r moved to position
Holder(r, position) == IF Yields(position) THEN 0 ELSE r

InFlight == {"fetch_countries", "fetch_rates", "loop", "image"}

Flying == {r \in Refreshes : pc[r] \in InFlight}

NoFetch == [countries |-> 0, rates |-> 0]

NoRun == [data |-> <<>>, rates |-> NoRates, times |-> 0, ids |-> {}]

NoRead ==
    [op |-> "", region |-> Null, currency |-> Null, name |-> Null, status |-> 0, rows |-> {},
     total |-> NoNum, last_refreshed_at |-> NoNum, asOf |-> {}, during |-> {}]

\* the locals of an invocation that has returned
Forget(r) ==
    /\ data' = [data EXCEPT ![r] = <<>>]
    /\ rates' = [rates EXCEPT ![r] = NoRates]
    /\ idx' = [idx EXCEPT ![r] = 0]
    /\ refresh_time' = [refresh_time EXCEPT ![r] = 0]
    /\ sess' = [sess EXCEPT ![r] = EmptySession]
    /\ snap' = [snap EXCEPT ![r] = {}]

-----------------------------------------------------------------------------
(* Refresh Orchestrator: refresh_countries, lines 212-326.                 *)

\* POST /countries/refresh arrives: db = next(get_db()), then await fetch_countries()
refresh_countries(r) ==
    /\ running = 0
    /\ pc[r] = "idle"
    /\ \A q \in Refreshes : q < r => pc[q] # "idle"    \* invocations are numbered as they arrive
    /\ pc' = [pc EXCEPT ![r] = "fetch_countries"]
    /\ running' = Holder(r, "fetch_countries")
    /\ sess' = [sess EXCEPT ![r] = EmptySession]
    /\ overlapped' = [q \in Refreshes |->
                        IF q = r THEN Flying
                        ELSE IF q \in Flying THEN overlapped[q] \cup {r} ELSE overlapped[q]]
    /\ fetched' = [fetched EXCEPT ![r].countries = @ + 1]
    /\ UNCHANGED <<collation, table, nextId, clock, image, data, rates, idx, refresh_time,
                   outcome, lastRead, lastCommitted, snap, prevRun>>

\* fetch_countries() returns response.json(); then await fetch_exchange_rates()
fetch_countries(r, feeds) ==
    /\ running = 0
    /\ pc[r] = "fetch_countries"
    /\ \E feed \in feeds : data' = [data EXCEPT ![r] = feed]
    /\ pc' = [pc EXCEPT ![r] = "fetch_rates"]
    /\ running' = Holder(r, "fetch_rates")
    /\ fetched' = [fetched EXCEPT ![r].rates = @ + 1]
    /\ UNCHANGED <<collation, table, nextId, clock, image, rates, idx, refresh_time, sess,
                   outcome, lastRead, lastCommitted, overlapped, snap, prevRun>>

\* faulty variant: a fetch that raises is sent once more
fetch_fails_retried(r) ==
    /\ running = 0
    /\ pc[r] \in {"fetch_countries", "fetch_rates"}
    /\ fetched[r].countries + fetched[r].rates < 3
    /\ fetched' = IF pc[r] = "fetch_countries"
                  THEN [fetched EXCEPT ![r].countries = @ + 1]
                  ELSE [fetched EXCEPT ![r].rates = @ + 1]
    /\ UNCHANGED <<collation, table, nextId, clock, image, running, pc, data, rates, idx,
                   refresh_time, sess, outcome, lastRead, lastCommitted, overlapped, snap,
                   prevRun>>

\* a fetch raises: except HTTPException: db.rollback(); raise; finally: db.close()
fetch_fails(r) ==
    /\ running = 0
    /\ pc[r] \in {"fetch_countries", "fetch_rates"}
    /\ \E failure \in FetchFailures :
          outcome' = [outcome EXCEPT ![r] =
                         fetch_error(IF pc[r] = "fetch_countries" THEN "countries" ELSE "rates",
                                     failure)]
    /\ table' = Rollback(table, sess[r], nextId)
    /\ pc' = [pc EXCEPT ![r] = "done"]
    /\ running' = Holder(r, "done")
    /\ Forget(r)
    /\ UNCHANGED <<collation, fetched, nextId, clock, image, lastRead, lastCommitted, overlapped,
                   prevRun>>

\* fetch_exchange_rates() returns data.get("rates", {}); refresh_time = datetime.utcnow();
\* the for loop begins
fetch_exchange_rates(r, tables) ==
    /\ running = 0
    /\ pc[r] = "fetch_rates"
    /\ \E exchange_rates \in tables : rates' = [rates EXCEPT ![r] = exchange_rates]
    /\ refresh_time' = [refresh_time EXCEPT ![r] = clock]
    /\ clock' = clock + 1
    /\ idx' = [idx EXCEPT ![r] = 1]
    /\ snap' = [snap EXCEPT ![r] = table]
    /\ pc' = [pc EXCEPT ![r] = "loop"]
    /\ running' = Holder(r, "loop")
    /\ UNCHANGED <<collation, fetched, table, nextId, image, data, sess, outcome, lastRead,
                   lastCommitted, overlapped, prevRun>>

\* one pass of the for loop over a record without validation errors: estimate, look the
\* name up, update the row found or add a new one
reconcile(r, multipliers) ==
    /\ running \in {0, r}
    /\ pc[r] = "loop"
    /\ idx[r] <= Len(data[r])
    /\ LET country_data == data[r][idx[r]]
       IN  /\ validation_errors(country_data) = {}
           /\ \E random_multiplier \in multipliers :
              \E existing_country \in First(Matches(table, country_data.name)) :
                 LET est == Estimate(country_data, rates[r], random_multiplier)
                     s == Upsert(sess[r], existing_country, country_data, est, refresh_time[r])
                 IN  /\ sess' = [sess EXCEPT ![r] = s]
                     /\ table' = AfterWrite(table, s, nextId)
    /\ idx' = [idx EXCEPT ![r] = idx[r] + 1]
    /\ running' = Holder(r, "loop")
    /\ UNCHANGED <<collation, fetched, nextId, clock, image, pc, data, rates, refresh_time, outcome,
                   lastRead, lastCommitted, overlapped, snap, prevRun>>

\* one pass of the for loop over a record with validation errors: raise HTTPException(400);
\* except HTTPException: db.rollback(); raise; finally: db.close()
reject(r) ==
    /\ running \in {0, r}
    /\ pc[r] = "loop"
    /\ idx[r] <= Len(data[r])
    /\ validation_errors(data[r][idx[r]]) # {}
    /\ outcome' = [outcome EXCEPT ![r] = validation_failed(validation_errors(data[r][idx[r]]))]
    /\ table' = Rollback(table, sess[r], nextId)
    /\ pc' = [pc EXCEPT ![r] = "done"]
    /\ running' = Holder(r, "done")
    /\ Forget(r)
    /\ UNCHANGED <<collation, fetched, nextId, clock, image, lastRead, lastCommitted, overlapped,
                   prevRun>>

\* the exceptions the lookup of one pass may raise: a failure of the database
QueryErrors == {"OperationalError"}

\* one pass of the for loop raises at the lookup (lines 274-276): except Exception:
\* db.rollback(); raise HTTPException(500); finally: db.close()
reconcile_raises(r) ==
    /\ running \in {0, r}
    /\ pc[r] = "loop"
    /\ idx[r] <= Len(data[r])
    /\ validation_errors(data[r][idx[r]]) = {}
    /\ \E e \in QueryErrors : outcome' = [outcome EXCEPT ![r] = internal_error(e)]
    /\ table' = Rollback(table, sess[r], nextId)
    /\ pc' = [pc EXCEPT ![r] = "done"]
    /\ running' = Holder(r, "done")
    /\ Forget(r)
    /\ UNCHANGED <<collation, fetched, nextId, clock, image, lastRead, lastCommitted, overlapped,
                   prevRun>>

\* this commit repeats the last committed run: same feed, same rates, store untouched since
Repeats(r) == prevRun.times > 0 /\ prevRun.data = data[r] /\ prevRun.rates = rates[r]

\* db.commit() after the loop succeeds
commit(r) ==
    /\ running \in {0, r}
    /\ pc[r] = "loop"
    /\ idx[r] > Len(data[r])
    /\ FlushError(table, sess[r], collation) = ""
    /\ table' = Flush(table, sess[r], nextId)
    /\ nextId' = nextId + Len(sess[r].new)
    /\ lastCommitted' = table'
    /\ prevRun' = IF Repeats(r)
                  THEN [prevRun EXCEPT !.times = 2]
                  ELSE [data |-> data[r], rates |-> rates[r], times |-> 1,
                        ids |-> {row.id : row \in table'}]
    /\ pc' = [pc EXCEPT ![r] = "image"]
    /\ running' = Holder(r, "image")
    /\ UNCHANGED <<collation, fetched, clock, image, data, rates, idx, refresh_time, sess, outcome,
                   lastRead, overlapped, snap>>

\* the exceptions db.commit() may raise: that of the flush, or a failure of the database
CommitErrors(tbl, s, coll) == {"OperationalError"} \cup ({FlushError(tbl, s, coll)} \ {""})

\* db.commit() raises: except Exception: db.rollback(); raise HTTPException(500)
commit_raises(r) ==
    /\ running \in {0, r}
    /\ pc[r] = "loop"
    /\ idx[r] > Len(data[r])
    /\ \E e \in CommitErrors(table, sess[r], collation) :
          outcome' = [outcome EXCEPT ![r] = internal_error(e)]
    /\ table' = Rollback(table, sess[r], nextId)
    /\ pc' = [pc EXCEPT ![r] = "done"]
    /\ running' = Holder(r, "done")
    /\ Forget(r)
    /\ UNCHANGED <<collation, fetched, nextId, clock, image, lastRead, lastCommitted, overlapped,
                   prevRun>>

\* generate_summary_image(db); total = db.query(Country).count(); return
finish(r) ==
    /\ running \in {0, r}
    /\ pc[r] = "image"
    /\ \E ranking \in Ranked(Priced(table), TopN) : \E failure \in ImageFailures :
          /\ image' = generate_summary_image(table, image, ranking, failure)
          /\ outcome' = [outcome EXCEPT ![r] =
                             IF image_exception(failure) = ""
                             THEN refreshed(Cardinality(table), refresh_time[r])
                             ELSE internal_error(image_exception(failure))]
    /\ pc' = [pc EXCEPT ![r] = "done"]
    /\ running' = Holder(r, "done")
    /\ Forget(r)
    /\ UNCHANGED <<collation, fetched, table, nextId, clock, lastRead, lastCommitted, overlapped,
                   prevRun>>

-----------------------------------------------------------------------------
(* The read handlers and delete_country, lines 328-449.  None of them      *)
(* awaits: each runs from its first line to its return while it holds the  *)
(* loop.                                                                   *)

\* the filters of get_countries; the order of the response is not modelled
Listed(tbl, region, currency) ==
    {row \in tbl : /\ (region # Null => ILike(row.region, region))
                   /\ (currency # Null => ILike(row.currency_code, currency))}

\* GET /countries
get_countries(regions, currencies) ==
    /\ running = 0
    /\ \E region \in regions : \E currency \in currencies :
          lastRead' = [NoRead EXCEPT !.op = "get_countries", !.region = region,
                                     !.currency = currency, !.status = 200,
                                     !.rows = Listed(table, region, currency),
                                     !.asOf = lastCommitted, !.during = Flying]
    /\ UNCHANGED <<collation, fetched, table, nextId, clock, image, running, pc, data, rates, idx,
                   refresh_time, sess, outcome, lastCommitted, overlapped, snap, prevRun>>

\* GET /countries/{name}
get_country(names) ==
    /\ running = 0
    /\ \E name \in names : \E country \in First(Matches(table, name)) :
          lastRead' = [NoRead EXCEPT !.op = "get_country", !.name = name,
                                     !.status = IF country = {} THEN 404 ELSE 200,
                                     !.rows = country,
                                     !.asOf = lastCommitted, !.during = Flying]
    /\ UNCHANGED <<collation, fetched, table, nextId, clock, image, running, pc, data, rates, idx,
                   refresh_time, sess, outcome, lastCommitted, overlapped, snap, prevRun>>

\* GET /status
get_status ==
    /\ running = 0
    /\ lastRead' = [NoRead EXCEPT !.op = "get_status", !.status = 200,
                                  !.total = Num(Cardinality(table)),
                                  !.last_refreshed_at = LastRefresh(table),
                                  !.asOf = lastCommitted, !.during = Flying]
    /\ UNCHANGED <<collation, fetched, table, nextId, clock, image, running, pc, data, rates, idx,
                   refresh_time, sess, outcome, lastCommitted, overlapped, snap, prevRun>>

\* DELETE /countries/{name}: the row found is deleted and the deletion committed; 404 and
\* no change when none is found
delete_country(names) ==
    /\ running = 0
    /\ \E name \in names : \E country \in First(Matches(table, name)) :
          /\ country # {}
          /\ table' = table \ country
    /\ lastCommitted' = table'
    /\ prevRun' = NoRun
    /\ UNCHANGED <<collation, fetched, nextId, clock, image, running, pc, data, rates, idx,
                   refresh_time, sess, outcome, lastRead, overlapped, snap>>

-----------------------------------------------------------------------------
(* Inputs of the bounded model.                                            *)

Full == [capital |-> "Abuja", region |-> "Africa", flag |-> "f.svg"]
Bare == [capital |-> Null, region |-> Null, flag |-> Null]

\* every feed of at most n records of a universe
Feeds(universe, n) == UNION {[1..k -> universe] : k \in 0..n}

\* the records of the concurrent specification: two spellings of one name and another name,
\* two payloads, and one record that fails validation
SmallCountries ==
    {Raw(name, JInt(1), Full, CurList(<<Cur("USD")>>)) : name \in {"a", "A", "b"}}
    \cup {Raw(name, JInt(2), Bare, CurList(<<Cur("USD")>>)) : name \in {"a", "A"}}
    \cup {Raw("b", JInt(-5), Bare, CurAbsent)}

SmallRates == {[NoRates EXCEPT !["USD"] = Num(2)]}

SmallMultipliers == {1000}

Names == {"a", "A", "b"}

-----------------------------------------------------------------------------
(* Specifications.                                                         *)

\* the table a refresh of feed leaves on an empty database: every record is inserted
SeedStore(feed, exchange_rates, random_multiplier) ==
    Flush({}, [new |-> [i \in 1..Len(feed) |->
                          Country(0, feed[i].name, feed[i],
                                  Estimate(feed[i], exchange_rates, random_multiplier), 0)],
               loaded |-> {}], 1)

\* the process starts (Base.metadata.create_all) on one of the given tables
InitWith(stores) ==
    /\ collation \in {"cs", "ci"}
    /\ table \in stores
    /\ nextId = Cardinality(table) + 1
    /\ clock = 1
    /\ image = NoImage
    /\ running = 0
    /\ pc = [r \in Refreshes |-> "idle"]
    /\ data = [r \in Refreshes |-> <<>>]
    /\ rates = [r \in Refreshes |-> NoRates]
    /\ idx = [r \in Refreshes |-> 0]
    /\ refresh_time = [r \in Refreshes |-> 0]
    /\ sess = [r \in Refreshes |-> EmptySession]
    /\ outcome = [r \in Refreshes |-> NoOutcome]
    /\ lastRead = NoRead
    /\ lastCommitted = table
    /\ overlapped = [r \in Refreshes |-> {}]
    /\ snap = [r \in Refreshes |-> {}]
    /\ fetched = [r \in Refreshes |-> NoFetch]
    /\ prevRun = NoRun

\* a fresh database
FreshStores == {{}}

Next ==
    \/ \E r \in Refreshes : refresh_countries(r)
    \/ \E r \in Refreshes : fetch_countries(r, Feeds(SmallCountries, MaxFeed))
    \/ \E r \in Refreshes : fetch_fails(r)
    \/ \E r \in Refreshes : fetch_exchange_rates(r, SmallRates)
    \/ \E r \in Refreshes : reconcile(r, SmallMultipliers)
    \/ \E r \in Refreshes : reject(r)
    \/ \E r \in Refreshes : commit(r)
    \/ \E r \in Refreshes : commit_raises(r)
    \/ \E r \in Refreshes : finish(r)
    \/ delete_country(Names)

\* a fresh table, or the table a previous refresh of one record left
SeedStores ==
    {{}, SeedStore(<<Raw("a", JInt(1), Full, CurList(<<Cur("USD")>>))>>,
                   [NoRates EXCEPT !["USD"] = Num(2)], 1000)}

Init == InitWith(SeedStores)

Spec == Init /\ [][Next]_vars

\* The reads specification: the handlers of Spec and the three read handlers, over a
\* smaller feed universe.
ReadCountries ==
    {Raw("a", JInt(1), Full, CurList(<<Cur("USD")>>)),
     Raw("A", JInt(2), Bare, CurList(<<Cur("USD")>>)),
     Raw("b", JInt(-5), Bare, CurAbsent)}

NextReads ==
    \/ \E r \in Refreshes : refresh_countries(r)
    \/ \E r \in Refreshes : fetch_countries(r, Feeds(ReadCountries, MaxFeed))
    \/ \E r \in Refreshes : fetch_fails(r)
    \/ \E r \in Refreshes : fetch_exchange_rates(r, SmallRates)
    \/ \E r \in Refreshes : reconcile(r, SmallMultipliers)
    \/ \E r \in Refreshes : reject(r)
    \/ \E r \in Refreshes : commit(r)
    \/ \E r \in Refreshes : commit_raises(r)
    \/ \E r \in Refreshes : finish(r)
    \/ delete_country({"a"})
    \/ get_countries({Null, "africa"}, {Null, "usd"})
    \/ get_country({"a", "b"})
    \/ get_status

InitReads == InitWith(FreshStores)

SpecReads == InitReads /\ [][NextReads]_vars

\* The batch specification: one refresh at a time over a rich record universe (every
\* validation outcome, every currency shape, rate tables with a missing and a zero rate),
\* on a fresh table or on one a previous refresh left.
RichCurrencies ==
    {CurAbsent, CurOther, CurList(<<>>), CurList(<<Cur(Null)>>),
     CurList(<<Cur(Null), Cur("USD")>>),
     CurList(<<Cur("USD")>>), CurList(<<Cur("XOF")>>), CurList(<<Cur("ZZZ"), Cur("USD")>>)}

ValidCountries ==
    {Raw(name, JInt(2), Full, currencies) : name \in {"a", "A"}, currencies \in RichCurrencies}
    \cup {Raw("a", JInt(0), Bare, CurList(<<Cur("USD")>>))}

InvalidCountries ==
    {Raw(name, population, Bare, CurAbsent) :
        name \in {Null, "", "a"}, population \in {JNull, JOther, JInt(-5), JInt(2)}}
    \ {Raw("a", JInt(2), Bare, CurAbsent)}

RichCountries == ValidCountries \cup InvalidCountries

RichRates ==
    {[USD |-> usd, XOF |-> xof] : usd \in {NoNum, Num(0), Num(2)}, xof \in {NoNum, Num(4)}}

RichMultipliers == {1000, 1500}

NextBatch ==
    \/ refresh_countries(1)
    \/ fetch_countries(1, Feeds(RichCountries, MaxFeed))
    \/ fetch_fails(1)
    \/ fetch_exchange_rates(1, RichRates)
    \/ reconcile(1, RichMultipliers)
    \/ reject(1)
    \/ commit(1)
    \/ commit_raises(1)
    \/ finish(1)

SpecBatch == Init /\ [][NextBatch]_vars

\* The image specification: one refresh over a table of five or six rows a previous refresh
\* left, two of them of equal estimated_gdp, one without estimated_gdp.
Priced5 ==
    <<Raw("c", JInt(1), Bare, CurList(<<Cur("USD")>>)),
      Raw("d", JInt(2), Bare, CurList(<<Cur("USD")>>)),
      Raw("e", JInt(3), Bare, CurList(<<Cur("USD")>>)),
      Raw("f", JInt(3), Bare, CurList(<<Cur("USD")>>)),
      Raw("g", JInt(4), Bare, CurList(<<Cur("USD")>>))>>

ImageStores ==
    {SeedStore(Priced5, [NoRates EXCEPT !["USD"] = Num(2)], 1000),
     SeedStore(Priced5 \o <<Raw("h", JInt(9), Bare, CurList(<<Cur("XOF")>>))>>,
               [NoRates EXCEPT !["USD"] = Num(2)], 1000)}

\* a new name, an update that reprices a row, an update that leaves a row without estimate,
\* a record without currency (estimated_gdp 0) and a record that fails validation
ImageCountries ==
    {Raw("b", JInt(5), Bare, CurList(<<Cur("USD")>>)),
     Raw("c", JInt(6), Bare, CurList(<<Cur("USD")>>)),
     Raw("d", JInt(2), Bare, CurList(<<Cur("XOF")>>)),
     Raw("a", JInt(7), Bare, CurAbsent),
     Raw("b", JInt(-5), Bare, CurAbsent)}

NextImage ==
    \/ refresh_countries(1)
    \/ fetch_countries(1, Feeds(ImageCountries, MaxFeed))
    \/ fetch_fails(1)
    \/ fetch_exchange_rates(1, SmallRates)
    \/ reconcile(1, SmallMultipliers)
    \/ reject(1)
    \/ commit(1)
    \/ commit_raises(1)
    \/ finish(1)

InitImage == InitWith(ImageStores)

SpecImage == InitImage /\ [][NextImage]_vars

\* The faults specification: one refresh whose lookups and commit may fail, over feeds that
\* make two pending inserts collide on the unique index.
FaultCountries ==
    {Raw(name, JInt(1), Full, CurList(<<Cur("USD")>>)) : name \in {"a", "b", "B"}}
    \cup {Raw("b", JInt(-5), Bare, CurAbsent)}

NextFaults ==
    \/ refresh_countries(1)
    \/ fetch_countries(1, Feeds(FaultCountries, MaxFeed))
    \/ fetch_fails(1)
    \/ fetch_exchange_rates(1, SmallRates)
    \/ reconcile(1, SmallMultipliers)
    \/ reconcile_raises(1)
    \/ reject(1)
    \/ commit(1)
    \/ commit_raises(1)
    \/ finish(1)

SpecFaults == Init /\ [][NextFaults]_vars

-----------------------------------------------------------------------------
(* Properties.                                                             *)

\* the rules of the validator: a name that is present and not empty, a population that is
\* an integer and not negative
FailsValidation(rec) ==
    \/ rec.name \in {Null, ""}
    \/ rec.population.t # "int"
    \/ rec.population.v < 0

\* the first record of a feed that fails validation (0 when every record passes)
FirstInvalid(feed) ==
    IF \A i \in 1..Len(feed) : ~FailsValidation(feed[i])
    THEN 0
    ELSE CHOOSE i \in 1..Len(feed) :
            /\ FailsValidation(feed[i])
            /\ \A j \in 1..(i - 1) : ~FailsValidation(feed[j])

NegativePopulation(rec) == rec.population.t = "int" /\ rec.population.v < 0

\* C1: a refresh whose feed holds a record that fails validation, wherever it sits, commits
\* nothing: from the start of its loop to its end the committed store is the store it
\* started on, it ends with HTTP 400 "Validation failed" carrying field errors, and when the
\* first failing record has a negative population they list population: "must be a
\* non-negative integer".
C1_InvalidRecordCommitsNothing ==
    [][\A r \in Refreshes :
          (pc[r] = "loop" /\ FirstInvalid(data[r]) # 0) =>
             /\ table' = snap[r]
             /\ pc'[r] \in {"loop", "done"}
             /\ pc'[r] = "done" =>
                   /\ outcome'[r].status = 400
                   /\ outcome'[r].error = "Validation failed"
                   /\ outcome'[r].fields # {}
                   /\ NegativePopulation(data[r][FirstInvalid(data[r])]) =>
                         <<"population", "must be a non-negative integer">>
                            \in outcome'[r].fields]_vars

\* a refresh over a non-empty store has ended with the 400 of a negative population
C1_Witness ==
    \E r \in Refreshes :
        /\ outcome[r].status = 400
        /\ <<"population", "must be a non-negative integer">> \in outcome[r].fields
        /\ table # {}

\* C2: a refresh whose fetch fails writes nothing: while it waits for either fetch its
\* session holds no change, the step that fails leaves the committed store as it is and ends
\* the refresh with HTTP 503 "External data source unavailable" naming the source that
\* failed and its endpoint (the exchange-rate endpoint for the exchange-rate fetch).
C2_FetchFailureTouchesNothing ==
    [][\A r \in Refreshes :
          (pc[r] \in {"fetch_countries", "fetch_rates"} /\ pc'[r] = "done") =>
             /\ sess[r] = EmptySession
             /\ table' = table
             /\ outcome'[r].status = 503
             /\ outcome'[r].error = "External data source unavailable"
             /\ outcome'[r].details =
                   IF pc[r] = "fetch_rates"
                   THEN <<"Could not fetch data from", "Exchange Rate API", EXCHANGE_API>>
                   ELSE <<"Could not fetch data from", "RestCountries API", COUNTRIES_API>>]_vars

\* the exchange-rate fetch of a refresh has failed over a non-empty store
C2_Witness ==
    \E r \in Refreshes :
        /\ outcome[r].status = 503
        /\ outcome[r].details[3] = EXCHANGE_API
        /\ table # {}

\* C3: every response of a read handler is the response computed on the store as of the
\* last completed commit (of a whole refresh batch or of a deletion): a read never shows
\* rows of a batch that is only partly written.
C3_ReadsSeeCommittedStore ==
    /\ lastRead.op = "get_countries" =>
          lastRead.rows = Listed(lastRead.asOf, lastRead.region, lastRead.currency)
    /\ lastRead.op = "get_country" =>
          lastRead.rows \in First(Matches(lastRead.asOf, lastRead.name))
    /\ lastRead.op = "get_status" =>
          /\ lastRead.total = Num(Cardinality(lastRead.asOf))
          /\ lastRead.last_refreshed_at = LastRefresh(lastRead.asOf)

\* a listing served while a refresh was in flight returned rows of an earlier commit
C3_Witness ==
    /\ lastRead.op = "get_countries"
    /\ lastRead.during # {}
    /\ lastRead.rows # {}

\* the invocations between their start (fetching) and their commit or rollback
Executing == {r \in Refreshes : pc[r] \in {"fetch_countries", "fetch_rates", "loop"}}

\* C4: at most one refresh invocation is between its start and its commit or rollback.
C4_AtMostOneRefreshExecuting == Cardinality(Executing) <= 1

\* no two rows carry the same name
NoDuplicateNames(tbl) == \A x, y \in tbl : x.name = y.name => x = y

\* invocation r commits in this step
Commits(r) == pc[r] = "loop" /\ pc'[r] = "image"

\* C5: when a refresh that overlapped another one commits, no two rows carry the same name,
\* every row it updated holds in full the values it assigned (no column keeps a value of the
\* other refresh) and every row it added is stored as it built it.
C5_OverlappingRefreshesSerialize ==
    [][\A r \in Refreshes :
          (Commits(r) /\ overlapped[r] # {}) =>
             /\ NoDuplicateNames(table')
             /\ \A e \in sess[r].loaded : e.cur \in table'
             /\ \A row \in Inserted(sess[r], nextId) : row \in table']_vars

\* a refresh has committed an update of a row that a refresh it overlapped had written
C5_Witness ==
    \E r \in Refreshes : \E q \in overlapped[r] :
        /\ pc[r] = "image"
        /\ outcome[q].status = 200
        /\ \E e \in sess[r].loaded : Num(e.orig.last_refreshed_at) = outcome[q].last_refreshed_at

\* C6: no two stored records have names that are equal up to letter case.
C6_NamesUniqueUpToCase ==
    \A x, y \in table : Lower(x.name) = Lower(y.name) => x = y

\* C7: a refresh that repeats the last committed refresh (same feed, same rates, store
\* untouched in between) finds a row for every name of the feed, so it reaches its commit with
\* no pending insert and no constraint violated, and after its commit the store holds the
\* same rows, by primary key, as after the first run: the record count is unchanged.
C7_RerunUpdatesInPlace ==
    /\ \A r \in Refreshes :
          (pc[r] = "loop" /\ idx[r] > Len(data[r]) /\ Repeats(r)) =>
             /\ sess[r].new = <<>>
             /\ FlushError(table, sess[r], collation) = ""
    /\ prevRun.times = 2 => {row.id : row \in table} = prevRun.ids

\* a feed of two records has been committed a second time
C7_Witness == prevRun.times = 2 /\ Len(prevRun.data) = 2 /\ table # {}

\* record i of the feed of r is spelled differently from a row stored when the loop began
\* that has the same name up to letter case
CaseVariant(r, i) ==
    \E old \in snap[r] : ILike(old.name, data[r][i].name) /\ old.name # data[r][i].name

\* C8: when a committed refresh contains a name that differs only in letter case from a
\* stored record, a stored record of that name up to case (the record, when there is one)
\* is updated in place, keeping its primary key and its stored name and carrying the batch's
\* timestamp, and the commit adds no row of that name up to case.
C8_CaseVariantUpdatesInPlace ==
    \A r \in Refreshes :
        pc[r] = "image" =>
           \A i \in 1..Len(data[r]) :
               CaseVariant(r, i) =>
                  /\ \E old \in Matches(snap[r], data[r][i].name) : \E row \in table :
                        /\ row.id = old.id
                        /\ row.name = old.name
                        /\ row.last_refreshed_at = refresh_time[r]
                  /\ \A row \in Matches(table, data[r][i].name) :
                        \E old \in snap[r] : old.id = row.id

\* a refresh has committed a record spelled differently from the stored name
C8_Witness ==
    \E r \in Refreshes : pc[r] = "image" /\ \E i \in 1..Len(data[r]) : CaseVariant(r, i)

\* C9: whatever step of the image generation fails, the refresh that has committed ends
\* with HTTP 200, the count of the store and its timestamp, and the committed rows stay.
C9_ImageFailureKeepsOutcome ==
    [][\A r \in Refreshes :
          (pc[r] = "image" /\ pc'[r] = "done") =>
             /\ outcome'[r] = refreshed(Cardinality(table), refresh_time[r])
             /\ table' = table]_vars

\* a refresh over committed rows reported success although the image was never written
C9_Witness ==
    \E r \in Refreshes : outcome[r].status = 200 /\ image = NoImage /\ table # {}

\* C10: a row written for a currency code whose rate is zero is stored as one whose code
\* has no rate: exchange_rate and estimated_gdp NULL, the code kept.
C10_ZeroRateAsNotFound ==
    \A r \in Refreshes :
        pc[r] = "image" =>
           \A row \in table :
               (/\ row.last_refreshed_at = refresh_time[r]
                /\ row.currency_code # Null
                /\ RateGet(rates[r], row.currency_code) = Num(0)) =>
                   row.exchange_rate = NoNum /\ row.estimated_gdp = NoNum

\* C11: every stored row has an estimated_gdp only when it has an exchange_rate that is not
\* zero, or when it has no currency code; and a row without a currency code has
\* estimated_gdp = 0 and no exchange_rate.
C11_EstimateOnlyWithRate ==
    \A row \in table :
        /\ row.estimated_gdp # NoNum =>
              \/ row.exchange_rate # NoNum /\ row.exchange_rate[1] # 0
              \/ row.currency_code = Null
        /\ row.currency_code = Null =>
              row.estimated_gdp = Num(0) /\ row.exchange_rate = NoNum

\* the store holds a row written with a zero rate and a row without currency
C11_Witness ==
    /\ \E row \in table : row.exchange_rate = Num(0) /\ row.estimated_gdp = NoNum
    /\ \E row \in table : row.currency_code = Null

\* record i is the only record of the feed of r with its name, up to letter case
NameOnce(r, i) ==
    \A j \in 1..Len(data[r]) : j # i => Lower(data[r][j].name) # Lower(data[r][i].name)

\* the rows that the commit of r wrote for record i of its feed
Written(r, i) ==
    {row \in table :
        /\ Lower(row.name) = Lower(data[r][i].name)
        /\ row.last_refreshed_at = refresh_time[r]}

\* the records r has committed, each the only one of its name in the feed
Settled(r) ==
    IF pc[r] = "image" THEN {i \in 1..Len(data[r]) : NameOnce(r, i)} ELSE {}

\* currencies is absent, an empty list, or a list whose first entry has no code
NoCurrency(rec) ==
    \/ rec.currencies.t = "absent"
    \/ rec.currencies.t = "list" /\ rec.currencies.items = <<>>
    \/ rec.currencies.t = "list" /\ rec.currencies.items # <<>>
                                  /\ rec.currencies.items[1].code = Null

\* C12: a committed record with no currency is stored with currency_code NULL,
\* exchange_rate NULL and estimated_gdp 0, whatever the rate table holds.
C12_NoCurrencyStoresZero ==
    \A r \in Refreshes : \A i \in Settled(r) :
        NoCurrency(data[r][i]) =>
           /\ Written(r, i) # {}
           /\ \A row \in Written(r, i) :
                  /\ row.currency_code = Null
                  /\ row.exchange_rate = NoNum
                  /\ row.estimated_gdp = Num(0)

\* a record whose first currency entry has no code, followed by an entry with a rated code,
\* has been committed
C12_Witness ==
    \E r \in Refreshes : \E i \in Settled(r) :
        /\ data[r][i].currencies = CurList(<<Cur(Null), Cur("USD")>>)
        /\ rates[r]["USD"] = Num(2)
        /\ Written(r, i) # {}

\* the first currency entry of the record carries a code that the rate table lacks
Unresolvable(rec, exchange_rates) ==
    /\ rec.currencies.t = "list"
    /\ rec.currencies.items # <<>>
    /\ rec.currencies.items[1].code \notin {Null, ""}
    /\ \/ rec.currencies.items[1].code \notin DOMAIN exchange_rates
       \/ exchange_rates[rec.currencies.items[1].code] = NoNum

\* C13: a committed record whose currency code is absent from the rate table is stored with
\* estimated_gdp NULL, exchange_rate NULL and the record's code as currency_code.
C13_UnresolvableCodeKept ==
    \A r \in Refreshes : \A i \in Settled(r) :
        Unresolvable(data[r][i], rates[r]) =>
           /\ Written(r, i) # {}
           /\ \A row \in Written(r, i) :
                  /\ row.currency_code = data[r][i].currencies.items[1].code
                  /\ row.exchange_rate = NoNum
                  /\ row.estimated_gdp = NoNum

\* a record with a code the table lacks has been committed over a row that had a rate
C13_Witness ==
    \E r \in Refreshes : \E i \in Settled(r) :
        /\ Unresolvable(data[r][i], rates[r])
        /\ \E old \in snap[r] : old.exchange_rate # NoNum /\ \E row \in Written(r, i) : row.id = old.id

\* the rows stored when the loop of r began that the lookup of record i matches
Existing(r, i) == {old \in snap[r] : Lower(old.name) = Lower(data[r][i].name)}

\* the multipliers random.uniform may draw in the bounded model
Multipliers == SmallMultipliers \cup RichMultipliers

\* row holds, in every mutable column, the value of the candidate rec of invocation r
FullyReplaced(row, rec, r) ==
    /\ row.capital = rec.capital
    /\ row.region = rec.region
    /\ row.population = rec.population.v
    /\ row.flag_url = rec.flag
    /\ row.last_refreshed_at = refresh_time[r]
    /\ \E m \in Multipliers :
          LET est == Estimate(rec, rates[r], m)
          IN  /\ row.currency_code = est.currency_code
              /\ row.exchange_rate = est.exchange_rate
              /\ row.estimated_gdp = est.estimated_gdp

\* C14: a committed refresh that updates an existing record overwrites every mutable column
\* with the candidate's value, NULL included: the row keeps its primary key and its name and
\* nothing else of its previous content.
C14_UpdateIsFullReplace ==
    \A r \in Refreshes : \A i \in Settled(r) :
        \A old \in Existing(r, i) :
            \E row \in table :
                /\ row.id = old.id
                /\ row.name = old.name
                /\ FullyReplaced(row, data[r][i], r)

\* an update has replaced a capital and an estimate by NULL
C14_Witness ==
    \E r \in Refreshes : \E i \in Settled(r) : \E old \in Existing(r, i) :
        /\ old.capital # Null /\ old.estimated_gdp # NoNum
        /\ data[r][i].capital = Null
        /\ \E row \in table :
              row.id = old.id /\ row.capital = Null /\ row.estimated_gdp = NoNum

\* the rows that invocation r, which has committed, updated or inserted
Touched(r) ==
    {row \in table :
        \/ \E e \in sess[r].loaded : e.orig.id = row.id
        \/ \A old \in snap[r] : old.id # row.id}

\* C15: when a refresh returns after its commit, every record of its feed has a row that it
\* updated or inserted, every such row carries the refresh_time taken once before the loop,
\* and the response returns that timestamp together with the number of stored rows.
C15_OneTimestampPerBatch ==
    [][\A r \in Refreshes :
          (pc[r] = "image" /\ pc'[r] = "done") =>
             /\ \A i \in 1..Len(data[r]) :
                    \E row \in Touched(r) : Lower(row.name) = Lower(data[r][i].name)
             /\ \A row \in Touched(r) : row.last_refreshed_at = refresh_time[r]
             /\ outcome'[r].status = 200
             /\ outcome'[r].last_refreshed_at = Num(refresh_time[r])
             /\ outcome'[r].total = Num(Cardinality(table'))]_vars

\* a refresh that updated one row and inserted another has returned, next to a row of an
\* earlier refresh
C15_Witness ==
    \E r \in Refreshes :
        /\ outcome[r].status = 200
        /\ outcome[r].total = Num(3)
        /\ \E x, y, z \in table :
              /\ x.id < y.id
              /\ x.name = "a" /\ y.name = "b"
              /\ Num(x.last_refreshed_at) = outcome[r].last_refreshed_at
              /\ Num(y.last_refreshed_at) = outcome[r].last_refreshed_at
              /\ Num(z.last_refreshed_at) # outcome[r].last_refreshed_at

\* the fields of a record that break a validation rule
BrokenFields(rec) ==
    {f \in {"name"} : rec.name \in {Null, ""}}
    \cup {f \in {"population"} : rec.population.t # "int" \/ rec.population.v < 0}

\* C16: the validation error of a refresh carries one entry for every field of the
\* offending record that breaks a rule, and for no other field: a record that breaks the
\* name rule and a population rule yields both the name and the population entry.
C16_AllViolationsCollected ==
    [][\A r \in Refreshes :
          (pc[r] = "loop" /\ pc'[r] = "done" /\ outcome'[r].status = 400) =>
             /\ FirstInvalid(data[r]) # 0
             /\ {f[1] : f \in outcome'[r].fields} = BrokenFields(data[r][FirstInvalid(data[r])])
             /\ Cardinality(outcome'[r].fields)
                   = Cardinality(BrokenFields(data[r][FirstInvalid(data[r])]))]_vars

\* a refresh has ended with a validation error listing both name and population
C16_Witness ==
    \E r \in Refreshes :
        /\ outcome[r].status = 400
        /\ <<"name", "is required">> \in outcome[r].fields
        /\ \E f \in outcome[r].fields : f[1] = "population"

\* the stored row of a name (countries.name is unique)
RowOf(tbl, name) == CHOOSE row \in tbl : row.name = name

\* the image img shows the number of rows of tbl and ranks TopN different rows of tbl that
\* have an estimated_gdp, in descending order of it, no other row having a greater one
ShowsTop(img, tbl) ==
    /\ img.total = Num(Cardinality(tbl))
    /\ Len(img.top) = TopN
    /\ \A i \in 1..Len(img.top) : \E row \in tbl :
           row.name = img.top[i].name /\ row.estimated_gdp # NoNum
    /\ \A i, j \in 1..Len(img.top) :
           i < j => /\ img.top[i].name # img.top[j].name
                    /\ RowOf(tbl, img.top[i].name).estimated_gdp[1]
                          >= RowOf(tbl, img.top[j].name).estimated_gdp[1]
    /\ \A row \in tbl :
           (row.estimated_gdp # NoNum /\ \A i \in 1..Len(img.top) : img.top[i].name # row.name)
              => \A i \in 1..Len(img.top) :
                    row.estimated_gdp[1] <= RowOf(tbl, img.top[i].name).estimated_gdp[1]

\* invocation r returns with success over a store of at least TopN rows with an estimated_gdp
ReturnsOverPriced(r) ==
    /\ pc[r] = "image" /\ pc'[r] = "done"
    /\ outcome'[r].status = 200
    /\ Cardinality({row \in table' : row.estimated_gdp # NoNum}) >= TopN

SameKey(x, y) == x = y \/ (collation = "ci" /\ Lower(x) = Lower(y))

\* the loop of r is over and the session holds an insert that the unique index refuses
Collides(r) ==
    /\ pc[r] = "loop"
    /\ idx[r] > Len(data[r])
    /\ \/ \E i, j \in 1..Len(sess[r].new) :
             i < j /\ SameKey(sess[r].new[i].name, sess[r].new[j].name)
       \/ \E i \in 1..Len(sess[r].new) : \E row \in table :
             SameKey(sess[r].new[i].name, row.name)

\* C18: a refresh that ends in its loop or at its commit for another reason than a
\* validation error leaves the store as it was when its loop began and answers HTTP 500
\* "Internal server error"; a commit that violates the unique index ends that way.
C18_OtherFailureRollsBack ==
    [][\A r \in Refreshes :
          /\ (pc[r] = "loop" /\ pc'[r] = "done" /\ outcome'[r].status # 400) =>
                /\ table' = snap[r]
                /\ outcome'[r].status = 500
                /\ outcome'[r].error = "Internal server error"
          /\ (Collides(r) /\ pc'[r] # pc[r]) =>
                /\ pc'[r] = "done"
                /\ table' = snap[r]
                /\ outcome'[r].status = 500]_vars

\* a refresh over a non-empty store has ended with the 500 of a uniqueness violation
C18_Witness ==
    \E r \in Refreshes :
        /\ outcome[r].status = 500
        /\ outcome[r].details = <<"IntegrityError">>
        /\ table # {}

\* C19: an invocation sends at most one request to each source; until both have answered
\* it has validated no record and its session holds no write; it is in its loop or past it
\* only after one request to each; and after a fetch failed it has ended with HTTP 503, a
\* failure of the countries fetch without any request for the rates.
C19_FetchOnceThenReconcile ==
    \A r \in Refreshes :
        /\ fetched[r].countries <= 1 /\ fetched[r].rates <= 1
        /\ pc[r] \in {"idle", "fetch_countries", "fetch_rates"} =>
              /\ idx[r] = 0
              /\ sess[r] = EmptySession
              /\ outcome[r] = NoOutcome
        /\ pc[r] \in {"loop", "image"} => fetched[r] = [countries |-> 1, rates |-> 1]
        /\ pc[r] = "fetch_rates" => fetched[r] = [countries |-> 1, rates |-> 1]
        /\ pc[r] = "fetch_countries" => fetched[r] = [countries |-> 1, rates |-> 0]
        /\ outcome[r].status = 503 =>
              /\ pc[r] = "done"
              /\ outcome[r].details[3] = COUNTRIES_API => fetched[r].rates = 0

\* the countries fetch of one invocation failed while another invocation was in its loop
C19_Witness ==
    \E r, q \in Refreshes :
        /\ outcome[r].status = 503
        /\ fetched[r] = [countries |-> 1, rates |-> 0]
        /\ pc[q] = "loop" /\ idx[q] > 1

\* row is matched by no name of the feed of r, up to letter case
Unmatched(row, r) ==
    \A i \in 1..Len(data[r]) : Lower(row.name) # Lower(data[r][i].name)

\* C20: no step of a refresh, whether it goes on, commits or fails, removes a row, and
\* every row whose name matches no name of its feed is stored afterwards with every column,
\* last_refreshed_at included, as before; rows disappear only in steps of delete_country.
C20_RefreshKeepsUnmatchedRows ==
    [][\A r \in Refreshes :
          pc'[r] # pc[r] =>
             /\ \A row \in table : \E kept \in table' : kept.id = row.id
             /\ \A row \in table : Unmatched(row, r) => row \in table']_vars

\* a refresh has committed an update of one row next to a row that its feed does not name
C20_Witness ==
    \E r \in Refreshes :
        /\ pc[r] = "image"
        /\ sess[r].loaded # {}
        /\ \E row \in table : row \in snap[r] /\ Unmatched(row, r)

====
